---- MODULE Spec2Model ----
(***************************************************************************)
(* TarStream (lib/streams/tar-stream.js): a writable object stream that    *)
(* receives vinyl entries one at a time and appends them to an archiver    *)
(* tar archive piped into a destination file stream.                       *)
(*                                                                         *)
(* The encoders (addDirectory, addFile, addSymbolicLink) and the           *)
(* constructor are translated from tar-stream.js.  The base class          *)
(* AbstractWritableStream (the dispatcher: one entry at a time, `finish`   *)
(* after the last callback) is not part of the sources at hand and is      *)
(* modelled from the specification.  The archiver, the fs streams and      *)
(* fs.readlink are the environment: they raise their events               *)
(* nondeterministically.                                                   *)
(***************************************************************************)
EXTENDS Integers, Sequences, FiniteSets, TLC

\* ------------------------------------------------------------------ bounds
MaxEntries == 3     \* entries the upstream delivers in one run
MaxErrors  == 2     \* errors the destination and the archiver raise in one run
MaxMode    == 4095  \* source permission values 0..0o7777 (SpecMode)
MaxRaises  == 2     \* times the destination raises `open` / `close` (SpecEvents)

\* ------------------------------------------------------- program constants
BaseMode == 420     \* 0o644
ExecMask == 73      \* 0o111

NoErr    == "null"                  \* callback() / callback(null)
OutputErrors  == {"EIO"}            \* error values the destination stream raises
ArchiveErrors == {"EARCHIVE"}       \* error values the archive encoder raises
IoErrors == {"ENOENT"}              \* error values of a read stream / fs.readlink
Targets  == {"t1"}                  \* link targets fs.readlink resolves to
GoodDest == "/tmp/out.tar"

VARIABLES
    dest,       \* constructor argument: "" (empty/undefined) or a path
    setup,      \* which call of the guarded block throws: "ok", "createWriteStream", "archiver"
    listened,   \* whether the base constructor left an `error` listener on the writer
    entries,    \* what the upstream will deliver, in order
    phase,      \* "new", "threw" (constructor threw), "failed" (catch taken), "ready"
    thrown,     \* exceptions that escaped a handler, in order
    handlers,   \* listeners currently registered by the constructor
    output,     \* destination stream: "none", "opening", "open", "errored", "closed"
    rawEvents,  \* how many times the destination stream raised `open` and `close`
    emitted,    \* events emitted on the writer, in order
    raised,     \* errors raised by the destination / archiver, in order
    next,       \* number of entries delivered so far
    inflight,   \* dispatcher: index of the entry whose callback is awaited, or 0
    ended,      \* upstream signalled "no more entries"
    finished,   \* the base class emitted `finish`
    cbs,        \* cbs[k]: arguments with which entry k's callback was invoked
    reading,    \* file entries whose read stream has neither ended nor errored
    linking,    \* symlink entries whose fs.readlink is pending
    outcome,    \* outcome[k]: what the read stream / fs.readlink of entry k produced
    records,    \* records appended to the archive encoder, in order
    finalized,  \* number of archive.finalize() calls
    lateAppends \* number of records appended after archive.finalize() was called

vars == <<dest, setup, listened, entries, phase, thrown, handlers, output, rawEvents, emitted, raised,
          next, inflight, ended, finished, cbs, outcome, reading, linking, records, finalized, lateAppends>>

\* ------------------------------------------------------------ bit helpers
RECURSIVE BitAnd(_, _)
BitAnd(a, b) ==
    IF a = 0 \/ b = 0 THEN 0
    ELSE (a % 2) * (b % 2) + 2 * BitAnd(a \div 2, b \div 2)

RECURSIVE BitOr(_, _)
BitOr(a, b) ==
    IF a = 0 THEN b
    ELSE IF b = 0 THEN a
    ELSE (IF a % 2 = 1 \/ b % 2 = 1 THEN 1 ELSE 0) + 2 * BitOr(a \div 2, b \div 2)

\* mode: 0o644 | (0o111 & file.stat.mode)
FileModeUnmasked(m) == BitOr(BaseMode, m)
FileMode(m) == BitOr(BaseMode, BitAnd(ExecMask, m))

\* ---------------------------------------------------------------- entries
Entry(kind, name, mode) == [kind |-> kind, name |-> name, mode |-> mode]

\* The vinyl entries of the main specification.
EntryPool ==
    { Entry("directory", "d", 0),
      Entry("file", "f", 493),
      Entry("symlink", "l", 0) }

SeqsUpTo(S, n) == UNION { [1..m -> S] : m \in 0..n }

Record(k, type, name, mode, target) ==
    [idx |-> k, type |-> type, name |-> name, mode |-> mode, target |-> target]

\* What one handler does: the records it appends, the callback invocations it
\* makes, whether it opens a read stream / starts a readlink, and the exception
\* that escapes it ("none" when it returns).
Effect(appends, calls, read, link, throws) ==
    [appends |-> appends, calls |-> calls, read |-> read, link |-> link, throws |-> throws]

\* ---------------------------------------------------------------- encoders
\* `a` is whether this._archive was set by the constructor.

addDirectoryNoCallback(k, e, a) ==
    IF ~a THEN Effect(<<>>, <<>>, FALSE, FALSE, "TypeError")
    ELSE Effect(<<Record(k, "directory", e.name, 0, "")>>, <<>>, FALSE, FALSE, "none")

addDirectoryTwice(k, e, a) ==
    IF ~a THEN Effect(<<>>, <<>>, FALSE, FALSE, "TypeError")
    ELSE Effect(<<Record(k, "directory", e.name, 0, ""), Record(k, "directory", e.name, 0, "")>>,
                <<NoErr>>, FALSE, FALSE, "none")

\* addDirectory: one record of type directory, then callback()
addDirectory(k, e, a) ==
    IF ~a THEN Effect(<<>>, <<>>, FALSE, FALSE, "TypeError")
    ELSE Effect(<<Record(k, "directory", e.name, 0, "")>>, <<NoErr>>, FALSE, FALSE, "none")

\* addFile: the read stream is created with the callback on its `error` and
\* `end` events, and appended as a record of type file; the callback is not
\* invoked here.
addFileCallbackAtAppend(k, e, a) ==
    IF ~a THEN Effect(<<>>, <<>>, TRUE, FALSE, "TypeError")
    ELSE Effect(<<Record(k, "file", e.name, FileMode(e.mode), "")>>, <<NoErr>>, TRUE, FALSE, "none")

addFile(k, e, a) ==
    IF ~a THEN Effect(<<>>, <<>>, TRUE, FALSE, "TypeError")
    ELSE Effect(<<Record(k, "file", e.name, FileMode(e.mode), "")>>, <<>>, TRUE, FALSE, "none")

\* the read stream's listeners: .on('error', callback).on('end', callback)
readErrorSwallowed(k, err) == Effect(<<>>, <<NoErr>>, FALSE, FALSE, "none")
readError(k, err) == Effect(<<>>, <<err>>, FALSE, FALSE, "none")

readEndSilent(k) == Effect(<<>>, <<>>, FALSE, FALSE, "none")
readEnd(k) == Effect(<<>>, <<NoErr>>, FALSE, FALSE, "none")

\* fs.readlink(file.history[0], ...) is started; nothing else happens until it calls back
addSymbolicLinkEarlyCallback(k, e, a) == Effect(<<>>, <<NoErr>>, FALSE, TRUE, "none")
addSymbolicLink(k, e, a) == Effect(<<>>, <<>>, FALSE, TRUE, "none")

\* the fs.readlink callback
readlinkNoReturn(k, e, a, err, target) ==
    IF ~a THEN Effect(<<>>, IF err # NoErr THEN <<err>> ELSE <<>>, FALSE, FALSE, "TypeError")
    ELSE Effect(<<Record(k, "symlink", e.name, 0, target)>>,
                IF err # NoErr THEN <<err, NoErr>> ELSE <<NoErr>>, FALSE, FALSE, "none")

readlinkDone(k, e, a, err, target) ==
    IF err # NoErr THEN Effect(<<>>, <<err>>, FALSE, FALSE, "none")
    ELSE IF ~a THEN Effect(<<>>, <<>>, FALSE, FALSE, "TypeError")
    ELSE Effect(<<Record(k, "symlink", e.name, 0, target)>>, <<NoErr>>, FALSE, FALSE, "none")


\* ------------------------------------------------------------- constructor
Ev(ev, val) == [ev |-> ev, val |-> val]

AllHandlers == {"archiveError", "outputOpen", "outputClose", "outputError", "finish"}

\* How the constructor registers each listener: archive.on('error'),
\* output.once('open'), output.once('close'), output.on('error'), this.once('finish').
RegistrationErrorOnce ==
    [archiveError |-> "once", outputOpen |-> "once", outputClose |-> "once",
     outputError |-> "once", finish |-> "once"]

RegistrationAllOn ==
    [archiveError |-> "on", outputOpen |-> "on", outputClose |-> "on",
     outputError |-> "on", finish |-> "once"]

Registration ==
    [archiveError |-> "on", outputOpen |-> "once", outputClose |-> "once",
     outputError |-> "on", finish |-> "once"]

\* the listeners left after listener h has run
Fire(hs, h) == IF Registration[h] = "once" THEN hs \ {h} ELSE hs

\* The writer's own event on which archive.finalize() is registered.
FinalizeOnOpen == "open"
FinalizeOn == "finish"

Outcome(ph, th, em, hs, out) ==
    [phase |-> ph, thrown |-> th, emitted |-> em, handlers |-> hs, output |-> out]

\* this.emit('error', err) in the catch block: with an `error` listener on
\* the writer the event is emitted and the constructor returns a writer without
\* archive encoder; an emitter without `error` listener throws err instead.
\* `out` is the destination stream the guarded block had created.
catch(l, err, out) ==
    IF l THEN Outcome("failed", <<>>, <<Ev("error", err)>>, {}, out)
    ELSE Outcome("threw", <<err>>, <<>>, {}, out)

ctorAssertInTry(d, s, l) ==
    IF d = "" THEN catch(l, "AssertionError", "none")
    ELSE IF s = "createWriteStream" THEN catch(l, "ESETUP", "none")
    ELSE IF s = "archiver" THEN catch(l, "ESETUP", "opening")
    ELSE Outcome("ready", <<>>, <<>>, AllHandlers, "opening")

ctorFinishBeforeTry(d, s, l) ==
    IF d = "" THEN Outcome("threw", <<"AssertionError">>, <<>>, {}, "none")
    ELSE IF s = "createWriteStream" THEN
        [catch(l, "ESETUP", "none") EXCEPT !.handlers = {"finish"}]
    ELSE IF s = "archiver" THEN
        [catch(l, "ESETUP", "opening") EXCEPT !.handlers = {"finish"}]
    ELSE Outcome("ready", <<>>, <<>>, AllHandlers, "opening")

\* constructor(dest, options): assert(dest) outside the try; inside it
\* createWriteStream, archiver, the listeners; the catch emits `error`.
ctor(d, s, l) ==
    IF d = "" THEN Outcome("threw", <<"AssertionError">>, <<>>, {}, "none")
    ELSE IF s = "createWriteStream" THEN catch(l, "ESETUP", "none")
    ELSE IF s = "archiver" THEN catch(l, "ESETUP", "opening")
    ELSE Outcome("ready", <<>>, <<>>, AllHandlers, "opening")

\* --------------------------------------------------------------- type sets
Setups == {"ok", "createWriteStream", "archiver"}

\* the state before `new TarStream(dest, options)`, whatever the inputs
Fresh ==
    /\ phase = "new"
    /\ thrown = <<>>
    /\ handlers = {}
    /\ output = "none"
    /\ rawEvents = [open |-> 0, close |-> 0]
    /\ emitted = <<>>
    /\ raised = <<>>
    /\ next = 0
    /\ inflight = 0
    /\ ended = FALSE
    /\ finished = FALSE
    /\ cbs = [k \in 1..Len(entries) |-> <<>>]
    /\ outcome = [k \in 1..Len(entries) |-> "pending"]
    /\ reading = {}
    /\ linking = {}
    /\ records = <<>>
    /\ finalized = 0
    /\ lateAppends = 0

\* Inputs: the destination path, the outcome of the guarded setup, whether the
\* base constructor registered an `error` listener (it matters only when the
\* guarded setup fails), the entries the upstream holds.  A constructor that
\* throws or fails is followed by at most one entry.
Init ==
    /\ dest \in {"", GoodDest}
    /\ setup \in Setups
    /\ entries \in SeqsUpTo(EntryPool, MaxEntries)
    /\ dest = "" => (setup = "ok" /\ entries = <<>>)
    /\ setup # "ok" => Len(entries) <= 1
    /\ listened \in BOOLEAN
    /\ (setup = "ok" /\ dest # "") => ~listened
    /\ Fresh

\* Inputs of the mode computation: one file entry of every source mode
\* 0..MaxMode, and a regular file's full st_mode 0o100755.
Modes == (0..MaxMode) \cup {33261}

InitMode ==
    /\ dest = GoodDest
    /\ setup = "ok"
    /\ listened = FALSE
    /\ entries \in { <<Entry("file", "f", m)>> : m \in Modes }
    /\ Fresh

\* ----------------------------------------------------------------- actions
\* new TarStream(dest, options)
Construct ==
    /\ phase = "new"
    /\ LET c == ctor(dest, setup, listened) IN
        /\ phase' = c.phase
        /\ thrown' = c.thrown
        /\ emitted' = c.emitted
        /\ handlers' = c.handlers
        /\ output' = c.output
    /\ UNCHANGED <<dest, setup, listened, rawEvents, entries, raised, next, inflight, ended, finished,
                   cbs, outcome, reading, linking, records, finalized, lateAppends>>

\* this.emit(ev, val) with hs the listeners left by the caller: the event is
\* emitted and the writer's own listener (archive.finalize()) runs on its event.
WriterEmit(ev, val, hs) ==
    /\ emitted' = Append(emitted, Ev(ev, val))
    /\ IF ev = FinalizeOn /\ "finish" \in hs
       THEN /\ finalized' = finalized + 1
            /\ handlers' = Fire(hs, "finish")
       ELSE /\ finalized' = finalized
            /\ handlers' = hs

\* the destination stream opens: output.once('open', () => this.emit('open'))
OutputOpen ==
    /\ output = "opening"
    /\ output' = "open"
    /\ rawEvents' = [rawEvents EXCEPT !.open = @ + 1]
    /\ IF "outputOpen" \in handlers
       THEN WriterEmit("open", NoErr, Fire(handlers, "outputOpen"))
       ELSE UNCHANGED <<emitted, finalized, handlers>>
    /\ UNCHANGED <<dest, setup, listened, entries, phase, thrown, raised, next, inflight, ended,
                   finished, cbs, outcome, reading, linking, records, lateAppends>>

\* the destination stream raises an error: output.on('error', err => this.emit('error', err))
OutputError(err) ==
    /\ output \in {"opening", "open", "errored"}
    /\ Len(raised) < MaxErrors
    /\ raised' = Append(raised, [src |-> "output", val |-> err])
    /\ output' = "errored"
    /\ IF "outputError" \in handlers
       THEN /\ WriterEmit("error", err, Fire(handlers, "outputError"))
            /\ thrown' = thrown
       ELSE /\ thrown' = Append(thrown, err)
            /\ UNCHANGED <<emitted, finalized, handlers>>
    /\ UNCHANGED <<dest, setup, listened, rawEvents, entries, phase, next, inflight, ended,
                   finished, cbs, outcome, reading, linking, records, lateAppends>>

\* the archive encoder raises an error: archive.on('error', err => this.emit('error', err))
ArchiveError(err) ==
    /\ phase = "ready"
    /\ Len(raised) < MaxErrors
    /\ raised' = Append(raised, [src |-> "archive", val |-> err])
    /\ IF "archiveError" \in handlers
       THEN /\ WriterEmit("error", err, Fire(handlers, "archiveError"))
            /\ thrown' = thrown
       ELSE /\ thrown' = Append(thrown, err)
            /\ UNCHANGED <<emitted, finalized, handlers>>
    /\ UNCHANGED <<dest, setup, listened, rawEvents, entries, phase, output, next, inflight, ended,
                   finished, cbs, outcome, reading, linking, records, lateAppends>>

\* the destination stream closes (the piped archive ended after finalize, or
\* auto-close after an error): output.once('close', () => this.emit('close'))
OutputClose ==
    /\ \/ output = "errored"
       \/ output = "open" /\ finalized > 0 /\ reading = {} /\ linking = {}
    /\ output' = "closed"
    /\ rawEvents' = [rawEvents EXCEPT !.close = @ + 1]
    /\ IF "outputClose" \in handlers
       THEN WriterEmit("close", NoErr, Fire(handlers, "outputClose"))
       ELSE UNCHANGED <<emitted, finalized, handlers>>
    /\ UNCHANGED <<dest, setup, listened, entries, phase, thrown, raised, next, inflight, ended,
                   finished, cbs, outcome, reading, linking, records, lateAppends>>


\* --------------------------------------------------------------- dispatcher
\* The effect of a handler that runs for entry k: the appends reach the archive
\* encoder, every callback invocation is recorded and tells the dispatcher that
\* the pending write is done, an escaping exception is recorded.
Apply(k, eff, delivering) ==
    /\ records' = records \o eff.appends
    /\ lateAppends' = IF finalized > 0 THEN lateAppends + Len(eff.appends) ELSE lateAppends
    /\ cbs' = [cbs EXCEPT ![k] = @ \o eff.calls]
    /\ thrown' = IF eff.throws = "none" THEN thrown ELSE Append(thrown, eff.throws)
    /\ inflight' = IF eff.calls # <<>> THEN 0
                   ELSE IF delivering THEN k
                   ELSE inflight

Encode(k, e, a) ==
    IF e.kind = "directory" THEN addDirectory(k, e, a)
    ELSE IF e.kind = "file" THEN addFile(k, e, a)
    ELSE addSymbolicLink(k, e, a)

\* The upstream delivers the next entry; the dispatcher routes it by kind.
Deliver ==
    /\ phase \in {"ready", "failed"}
    /\ ~ended
    /\ inflight = 0
    /\ next < Len(entries)
    /\ LET k == next + 1
           eff == Encode(k, entries[k], phase = "ready")
       IN /\ Apply(k, eff, TRUE)
          /\ reading' = IF eff.read THEN reading \cup {k} ELSE reading
          /\ linking' = IF eff.link THEN linking \cup {k} ELSE linking
          /\ next' = k
    /\ UNCHANGED <<dest, setup, listened, rawEvents, entries, phase, handlers, output, emitted, raised,
                   ended, finished, outcome, finalized>>

HasRecord(k) == \E i \in 1..Len(records) : records[i].idx = k

\* The read stream of file entry k reaches its end (the archive encoder
\* consumed it): the `end` listener runs.
ReadEnd(k) ==
    /\ k \in reading
    /\ HasRecord(k)
    /\ Apply(k, readEnd(k), FALSE)
    /\ reading' = reading \ {k}
    /\ outcome' = [outcome EXCEPT ![k] = NoErr]
    /\ UNCHANGED <<dest, setup, listened, rawEvents, entries, phase, handlers, output, emitted, raised,
                   next, ended, finished, linking, finalized>>

\* The read stream of file entry k raises an error: the `error` listener runs.
ReadError(k, err) ==
    /\ k \in reading
    /\ Apply(k, readError(k, err), FALSE)
    /\ reading' = reading \ {k}
    /\ outcome' = [outcome EXCEPT ![k] = err]
    /\ UNCHANGED <<dest, setup, listened, rawEvents, entries, phase, handlers, output, emitted, raised,
                   next, ended, finished, linking, finalized>>

\* fs.readlink of symlink entry k calls back with an error or with the target.
LinkDone(k, err, target) ==
    /\ k \in linking
    /\ Apply(k, readlinkDone(k, entries[k], phase = "ready", err, target), FALSE)
    /\ linking' = linking \ {k}
    /\ outcome' = [outcome EXCEPT ![k] = IF err # NoErr THEN err ELSE target]
    /\ UNCHANGED <<dest, setup, listened, rawEvents, entries, phase, handlers, output, emitted, raised,
                   next, ended, finished, reading, finalized>>

\* The upstream signals that no more entries remain.
End ==
    /\ phase \in {"ready", "failed"}
    /\ ~ended
    /\ ended' = TRUE
    /\ UNCHANGED <<dest, setup, listened, rawEvents, entries, phase, thrown, handlers, output, emitted, raised,
                   next, inflight, finished, cbs, outcome, reading, linking, records,
                   finalized, lateAppends>>

\* The base class emits `finish`: the upstream ended and no callback is awaited.
Finish ==
    /\ ended
    /\ inflight = 0
    /\ ~finished
    /\ finished' = TRUE
    /\ WriterEmit("finish", NoErr, handlers)
    /\ UNCHANGED <<dest, setup, listened, rawEvents, entries, phase, thrown, output, raised, next, inflight,
                   ended, cbs, outcome, reading, linking, records, lateAppends>>

Indices == 1..Len(entries)

Next ==
    \/ Construct
    \/ OutputOpen
    \/ \E err \in OutputErrors : OutputError(err)
    \/ \E err \in ArchiveErrors : ArchiveError(err)
    \/ OutputClose
    \/ Deliver
    \/ \E k \in Indices : ReadEnd(k)
    \/ \E k \in Indices, err \in IoErrors : ReadError(k, err)
    \/ \E k \in Indices, err \in IoErrors : LinkDone(k, err, "")
    \/ \E k \in Indices, target \in Targets : LinkDone(k, NoErr, target)
    \/ End
    \/ Finish

Spec == Init /\ [][Next]_vars

\* The dispatcher as the specification words it: an `error` event on the
\* writer short-circuits further processing, so no entry is delivered and
\* `finish` is not emitted once the writer has emitted `error`.
Errored == \E i \in 1..Len(emitted) : emitted[i].ev = "error"

DeliverUnlessErrored == ~Errored /\ Deliver

FinishUnlessErrored == ~Errored /\ Finish

NextShortCircuit ==
    \/ Construct
    \/ OutputOpen
    \/ \E err \in OutputErrors : OutputError(err)
    \/ \E err \in ArchiveErrors : ArchiveError(err)
    \/ OutputClose
    \/ DeliverUnlessErrored
    \/ \E k \in Indices : ReadEnd(k)
    \/ \E k \in Indices, err \in IoErrors : ReadError(k, err)
    \/ \E k \in Indices, err \in IoErrors : LinkDone(k, err, "")
    \/ \E k \in Indices, target \in Targets : LinkDone(k, NoErr, target)
    \/ End
    \/ FinishUnlessErrored

SpecShortCircuit == Init /\ [][NextShortCircuit]_vars

\* Runs in which the upstream follows its contract and no sub-operation fails:
\* the destination opens, every read stream ends, every lookup resolves.  The
\* event loop runs every callback that is due, the upstream goes on until it
\* has signalled the end: each step is weakly fair.
InitLive ==
    /\ dest = GoodDest
    /\ setup = "ok"
    /\ listened = FALSE
    /\ entries \in SeqsUpTo(EntryPool, MaxEntries)
    /\ Fresh

NextLive ==
    \/ Construct
    \/ OutputOpen
    \/ OutputClose
    \/ Deliver
    \/ \E k \in Indices : ReadEnd(k)
    \/ \E k \in Indices, target \in Targets : LinkDone(k, NoErr, target)
    \/ End
    \/ Finish

FairLive ==
    /\ WF_vars(Construct)
    /\ WF_vars(OutputOpen)
    /\ WF_vars(OutputClose)
    /\ WF_vars(Deliver)
    /\ WF_vars(\E k \in Indices : ReadEnd(k))
    /\ WF_vars(\E k \in Indices, target \in Targets : LinkDone(k, NoErr, target))
    /\ WF_vars(End)
    /\ WF_vars(Finish)

SpecLive == InitLive /\ [][NextLive]_vars /\ FairLive

\* A destination stream that raises `open` and `close` more than once.
OutputOpenAgain ==
    /\ output = "open"
    /\ rawEvents.open < MaxRaises
    /\ rawEvents' = [rawEvents EXCEPT !.open = @ + 1]
    /\ IF "outputOpen" \in handlers
       THEN WriterEmit("open", NoErr, Fire(handlers, "outputOpen"))
       ELSE UNCHANGED <<emitted, finalized, handlers>>
    /\ UNCHANGED <<dest, setup, listened, entries, phase, thrown, output, raised, next,
                   inflight, ended, finished, cbs, outcome, reading, linking, records,
                   lateAppends>>

OutputCloseAgain ==
    /\ output = "closed"
    /\ rawEvents.close < MaxRaises
    /\ rawEvents' = [rawEvents EXCEPT !.close = @ + 1]
    /\ IF "outputClose" \in handlers
       THEN WriterEmit("close", NoErr, Fire(handlers, "outputClose"))
       ELSE UNCHANGED <<emitted, finalized, handlers>>
    /\ UNCHANGED <<dest, setup, listened, entries, phase, thrown, output, raised, next,
                   inflight, ended, finished, cbs, outcome, reading, linking, records,
                   lateAppends>>

InitEvents ==
    /\ dest = GoodDest
    /\ setup = "ok"
    /\ listened = FALSE
    /\ entries \in SeqsUpTo(EntryPool, 1)
    /\ Fresh

NextEvents ==
    \/ Next
    \/ OutputOpenAgain
    \/ OutputCloseAgain

SpecEvents == InitEvents /\ [][NextEvents]_vars

\* The run of one file entry on a working destination.
NextMode ==
    \/ Construct
    \/ OutputOpen
    \/ OutputClose
    \/ Deliver
    \/ \E k \in Indices : ReadEnd(k)
    \/ \E k \in Indices, err \in IoErrors : ReadError(k, err)
    \/ End
    \/ Finish

SpecMode == InitMode /\ [][NextMode]_vars

\* ------------------------------------------------------------------ claims
Fired(k) == Len(cbs[k]) >= 1
HasEmitted(ev) == \E i \in 1..Len(emitted) : emitted[i].ev = ev
Pending(k) == k \in reading \/ k \in linking
KindOf(type) == IF type = "directory" THEN "directory" ELSE IF type = "file" THEN "file" ELSE "symlink"
RecordsOf(k) == { i \in 1..Len(records) : records[i].idx = k }

\* C1: an encoder is invoked for entry k+1 only after the completion callback
\* of entry k has fired, and at most one delivered entry awaits its callback.
OneAtATime ==
    /\ \A k \in 1..next : k < next => Fired(k)
    /\ Cardinality({ k \in 1..next : ~Fired(k) }) <= 1

OneAtATimeWitness ==
    /\ phase = "ready"
    /\ next = 3
    /\ entries[1].kind = "file" /\ entries[2].kind = "symlink" /\ entries[3].kind = "file"
    /\ Fired(1) /\ Fired(2) /\ ~Fired(3) /\ 3 \in reading

\* C2: on a constructed writer the callback of a delivered entry is never
\* invoked twice; it is not invoked while the entry's read or lookup is pending,
\* and it has been invoked exactly once when the encoder is done: with no
\* argument on success, with the error of the read stream or of the lookup on
\* failure.
ExactlyOnceCompletion ==
    phase = "ready" =>
        \A k \in 1..next :
            /\ Len(cbs[k]) <= 1
            /\ Pending(k) => cbs[k] = <<>>
            /\ ~Pending(k) =>
                   cbs[k] = << IF entries[k].kind = "directory" THEN NoErr
                               ELSE IF outcome[k] \in IoErrors THEN outcome[k]
                               ELSE NoErr >>

ExactlyOnceWitness ==
    /\ phase = "ready"
    /\ next = 3
    /\ \A k \in 1..3 : Len(cbs[k]) = 1
    /\ \E k \in 1..3 : entries[k].kind = "file" /\ cbs[k] = <<"ENOENT">>
    /\ \E k \in 1..3 : entries[k].kind = "file" /\ cbs[k] = <<NoErr>>
    /\ \E k \in 1..3 : entries[k].kind = "symlink" /\ cbs[k] = <<NoErr>>

\* C3: the records appended to the archive encoder are in delivery order: their
\* entry indices increase strictly, each record carries the kind and the name of
\* its entry, and the appended entries are exactly the delivered ones except the
\* symlinks whose target lookup is pending or failed.
DeliveryOrder ==
    phase = "ready" =>
        /\ \A i, j \in 1..Len(records) : i < j => records[i].idx < records[j].idx
        /\ \A i \in 1..Len(records) :
               /\ records[i].idx \in 1..next
               /\ KindOf(records[i].type) = entries[records[i].idx].kind
               /\ records[i].name = entries[records[i].idx].name
        /\ \A k \in 1..next :
               HasRecord(k) <=> (entries[k].kind = "symlink" => outcome[k] \in Targets)

DeliveryOrderWitness ==
    /\ Len(records) = 3
    /\ entries[1].kind = "file" /\ entries[2].kind = "symlink" /\ entries[3].kind = "directory"
    /\ records[1].type = "file" /\ records[2].type = "symlink" /\ records[3].type = "directory"

\* C4: archive.finalize() is invoked at most once, only after the upstream has
\* signalled the end and the callback of every delivered entry has fired, and
\* by the time a constructed writer has emitted `finish` it was invoked once.
FinalizeAfterAll ==
    /\ finalized <= 1
    /\ finalized = 1 => (ended /\ \A k \in 1..next : Fired(k))
    /\ (finished /\ phase = "ready") => finalized = 1

FinalizeAfterAllWitness ==
    /\ finalized = 1
    /\ next = 3
    /\ \E k \in 1..3 : entries[k].kind = "symlink"
    /\ \E k \in 1..3 : entries[k].kind = "file"

Bit(n, i) == (n \div (2 ^ i)) % 2
BaseBits == {2, 5, 7, 8}
ExecBits == {0, 3, 6}

ModeMasking ==
    \A i \in 1..Len(records) :
        records[i].type = "file" =>
            LET m == entries[records[i].idx].mode
                r == records[i].mode
            IN /\ \A b \in 0..16 :
                      Bit(r, b) = 1 <=> (b \in BaseBits \/ (b \in ExecBits /\ Bit(m, b) = 1))
               /\ r < 2 ^ 17
               /\ m = 493 => r = 493
               /\ m = 384 => r = 420

ModeMaskingWitness ==
    \E i \in 1..Len(records) :
        /\ records[i].type = "file"
        /\ entries[records[i].idx].mode = 2730
        /\ records[i].mode = 428

\* C7: a symlink entry whose target lookup failed has its callback invoked
\* with that error and no record in the archive; one whose lookup succeeded has
\* exactly one record, of type symlink, with its name and the resolved target,
\* and its callback invoked with no error; one whose lookup is pending has
\* neither.
SymlinkResolution ==
    phase = "ready" =>
        \A k \in 1..next :
            entries[k].kind = "symlink" =>
                /\ k \in linking => (cbs[k] = <<>> /\ RecordsOf(k) = {})
                /\ outcome[k] \in IoErrors => (cbs[k] = <<outcome[k]>> /\ RecordsOf(k) = {})
                /\ outcome[k] \in Targets =>
                       /\ cbs[k] = <<NoErr>>
                       /\ Cardinality(RecordsOf(k)) = 1
                       /\ \A i \in RecordsOf(k) :
                              records[i] = Record(k, "symlink", entries[k].name, 0, outcome[k])

SymlinkResolutionWitness ==
    /\ phase = "ready"
    /\ \E k \in 1..next :
           entries[k].kind = "symlink" /\ outcome[k] \in IoErrors /\ cbs[k] = <<outcome[k]>>
    /\ \E k \in 1..next :
           entries[k].kind = "symlink" /\ outcome[k] \in Targets /\ HasRecord(k)

\* C8: the step in which the read stream of file entry k raises an error
\* invokes entry k's callback with that error, lets no exception escape and
\* leaves the records appended so far as they are.
ReadErrorIsolated ==
    [][ \A k \in 1..Len(entries) :
            (k \in reading /\ k \notin reading' /\ outcome'[k] \in IoErrors) =>
                /\ cbs'[k] = cbs[k] \o <<outcome'[k]>>
                /\ outcome'[k] # NoErr
                /\ thrown' = thrown
                /\ records' = records ]_vars

ReadErrorWitness ==
    /\ phase = "ready"
    /\ next = 3
    /\ entries[3].kind = "file" /\ outcome[3] \in IoErrors /\ cbs[3] = <<outcome[3]>>
    /\ Len(records) = 3

\* C9 as stated: `open` precedes the first append, every append precedes
\* finalize, and `close` is emitted only after finalize.
OpenWriteFinalizeClose ==
    /\ records # <<>> => HasEmitted("open")
    /\ lateAppends = 0
    /\ HasEmitted("close") => finalized > 0

\* C9 amended: every append precedes finalize, and `close` is emitted only
\* after finalize has been invoked or after the destination raised an error;
\* `open` is not ordered with the appends.
WriteFinalizeClose ==
    /\ lateAppends = 0
    /\ HasEmitted("close") =>
           (finalized > 0 \/ \E i \in 1..Len(raised) : raised[i].src = "output")

WriteFinalizeCloseWitness ==
    /\ HasEmitted("close")
    /\ finalized = 1
    /\ Len(records) = 3
    /\ raised = <<>>

\* C10: on a constructed writer the `error` events emitted are, in order and
\* with the same values, the errors the destination stream and the archive
\* encoder raised, one event per error, and none of them is thrown.
ErrorValues(evs) == [ i \in 1..Len(evs) |-> evs[i].val ]
IsError(e) == e.ev = "error"

UnifiedErrorChannel ==
    phase = "ready" =>
        /\ ErrorValues(SelectSeq(emitted, IsError)) = ErrorValues(raised)
        /\ thrown = <<>>

UnifiedErrorWitness ==
    /\ phase = "ready"
    /\ Len(raised) = 2
    /\ raised[1].src = "output" /\ raised[2].src = "output"
    /\ Len(SelectSeq(emitted, IsError)) = 2

\* C11: the callback of a file entry is not invoked by addFile itself: while
\* the entry's read stream has neither ended nor raised an error the callback
\* has not fired and no later entry has been dispatched, and a callback that
\* has fired was fired by the stream's end or error.
FileCompletionOnStream ==
    \A k \in 1..next :
        entries[k].kind = "file" =>
            /\ k \in reading => (cbs[k] = <<>> /\ next = k /\ inflight = k)
            /\ Fired(k) => outcome[k] \in IoErrors \cup {NoErr}

FileCompletionWitness ==
    /\ phase = "ready"
    /\ Len(entries) = 3
    /\ next = 2
    /\ entries[2].kind = "file"
    /\ 2 \in reading /\ HasRecord(2)
    /\ ~ended

\* C12: once archive.finalize() has been invoked no step appends a record, and
\* at the step that invokes it no symlink lookup is pending and no file is
\* being read.
NoAppendAfterFinalize ==
    [][ /\ finalized > 0 => records' = records
        /\ finalized' > finalized => (linking' = {} /\ reading' = {}) ]_vars

NoAppendAfterFinalizeWitness ==
    /\ finalized = 1
    /\ next = 3
    /\ entries[2].kind = "file" /\ entries[3].kind = "symlink"
    /\ Len(records) = 3
    /\ output = "closed"

\* C13: once the writer has emitted an `error` event no step dispatches an
\* entry to an encoder, appends a record to the archive or invokes finalize.
ErrorShortCircuits ==
    [][ Errored => (next' = next /\ records' = records /\ finalized' = finalized) ]_vars

\* C14: when the upstream follows its contract and nothing fails, every fair
\* run invokes finalize and afterwards emits `close`, and no entry stays in
\* flight for ever.
EventualCompletion ==
    /\ <>(finalized = 1)
    /\ [](finalized = 1 => <>HasEmitted("close"))
    /\ [](inflight # 0 => <>(inflight = 0))
    /\ [](ended => <>finished)

EventualCompletionWitness ==
    /\ HasEmitted("close")
    /\ finalized = 1
    /\ next = 3
    /\ \A k \in 1..3 : Fired(k)
    /\ entries[1].kind = "symlink" /\ entries[2].kind = "file" /\ entries[3].kind = "directory"

\* C15: when a call of the guarded setup block throws, the constructor reports
\* it as the writer's `error` event and nothing is thrown out of the constructor.
SetupFailureReported ==
    (dest # "" /\ setup # "ok" /\ phase # "new") =>
        /\ phase = "failed"
        /\ Errored
        /\ thrown = <<>>

NumRecords(k) == Cardinality(RecordsOf(k))

OneAppendPerEntry ==
    /\ Len(records) <= next
    /\ \A k \in 1..Len(entries) : NumRecords(k) <= 1
    /\ \A k \in 1..Len(entries) : k > next => NumRecords(k) = 0
    /\ phase = "ready" =>
           \A k \in 1..next :
               NumRecords(k) = IF entries[k].kind = "symlink" /\ outcome[k] \notin Targets
                               THEN 0 ELSE 1

OneAppendWitness ==
    /\ phase = "ready"
    /\ next = 3
    /\ Len(records) = 2
    /\ \E k \in 1..3 : entries[k].kind = "file" /\ outcome[k] \in IoErrors /\ NumRecords(k) = 1
    /\ \E k \in 1..3 : entries[k].kind = "symlink" /\ outcome[k] \in IoErrors /\ NumRecords(k) = 0
    /\ \E k \in 1..3 : entries[k].kind = "directory"

\* C18: a writer whose guarded setup failed (the failure went to the `error`
\* event) has no finalize listener and no archive encoder: no record is ever
\* appended, finalize is never invoked, and no entry's callback is invoked
\* without an error.
FailedWriterUnusable ==
    phase = "failed" =>
        /\ "finish" \notin handlers
        /\ records = <<>>
        /\ finalized = 0
        /\ \A k \in 1..Len(entries) : \A i \in 1..Len(cbs[k]) : cbs[k][i] # NoErr

FailedWriterWitness ==
    /\ phase = "failed"
    /\ next = 1
    /\ cbs[1] = <<"ENOENT">>
    /\ finished

\* C19: the writer emits `open` at most once and `close` at most once, however
\* many times the destination stream raises them, while it emits one `error`
\* event for every error the destination stream or the archive encoder raises.
Count(ev) == Cardinality({ i \in 1..Len(emitted) : emitted[i].ev = ev })

OpenCloseOnce ==
    /\ Count("open") = (IF rawEvents.open > 0 /\ phase = "ready" THEN 1 ELSE 0)
    /\ Count("close") = (IF rawEvents.close > 0 /\ phase = "ready" THEN 1 ELSE 0)
    /\ phase = "ready" => Count("error") = Len(raised)

OpenCloseOnceWitness ==
    /\ rawEvents.open = 2
    /\ rawEvents.close = 2
    /\ Count("open") = 1
    /\ Count("close") = 1
    /\ Count("error") = 2

====
